---------------------------- MODULE Spec2Model ----------------------------
(***************************************************************************)
(* A model of the arbitrage engine of aida-arbitrage-betting:              *)
(* src/analysis/arbitrage.py (ArbitrageAnalyzer) over the quote records of *)
(* src/datamodel/betting_odds.py (BettingOdds), and of its collaborators   *)
(* src/storage/storage_csv.py (CSVBettingOddsStorage) and                  *)
(* src/scraper/scraper_base.py (ScraperBase.scrape).                       *)
(*                                                                         *)
(* Numbers.  Python floats are modelled as exact rationals <<n, d>> in     *)
(* lowest terms with d > 0, so that equal numbers are equal values.  The   *)
(* operations keep the order in which the code applies them.  IEEE-754     *)
(* rounding of the last bit is not modelled: every equality between        *)
(* computed numbers below is an equality of the exact values, which the    *)
(* code reproduces up to floating-point rounding.                          *)
(***************************************************************************)
EXTENDS Integers, Sequences, FiniteSets, TLC

VARIABLES
    odds_list,      \* the list handed to find_arbitrage_opportunities
    pc,             \* the caller's position
    report,         \* the dictionary returned by the last call
    first_report,   \* the dictionary returned by the first call
    profits,        \* the dictionary returned by calculate_potential_profit
    profit_stake,   \* the total_stake handed to calculate_potential_profit
    sd_odds,        \* the odds handed to calculate_stake_distribution
    sd_total,       \* the total_stake handed to calculate_stake_distribution
    sd_result,      \* what calculate_stake_distribution returned or raised
    raw,            \* the keyword arguments handed to BettingOdds(...)
    heap,           \* the BettingOdds objects that exist: their __dict__
    last,           \* the last operation on a record and what it gave back
    mutations,      \* the assignments and deletions attempted on records
    ip_odds,        \* the odds handed to calculate_implied_probability
    ip_result,      \* what calculate_implied_probability returned or raised
    am_probabilities, \* the list handed to calculate_arbitrage_margin
    am_result,      \* what calculate_arbitrage_margin returned or raised
    storage,        \* the CSVBettingOddsStorage object: its attributes
    csvfile,        \* the session file of the storage
    lifecycle,      \* whether initialize() was called, and close() since
    st_last,        \* the last call on the storage and what it gave back
    scraper,        \* the ScraperBase object and the locals of scrape()
    now,            \* datetime.now(), in ticks
    attempts,       \* the calls of _extract_betting_data made by scrape()
    accepted,       \* the calls of storage.store that returned
    after_end,      \* the extractions begun at or after session_end_time
    result          \* what scrape() returned

record_vars == <<raw, heap, last, mutations>>

arith_vars == <<ip_odds, ip_result, am_probabilities, am_result>>

storage_vars == <<storage, csvfile, lifecycle, st_last>>

scrape_vars == <<scraper, now, attempts, accepted, after_end, result>>

vars == <<odds_list, pc, report, first_report, profits, profit_stake,
          sd_odds, sd_total, sd_result, record_vars, arith_vars,
          storage_vars, scrape_vars>>

-----------------------------------------------------------------------------
(* Rational arithmetic *)

(* None, an optional float that is absent: no rational has denominator 0 *)
None == <<0, 0>>

IsNone(v) == v[2] = 0

Abs(i) == IF i < 0 THEN -i ELSE i

RECURSIVE GCD(_, _)
GCD(a, b) == IF b = 0 THEN a ELSE GCD(b, a % b)

Rat(n, d) ==
    LET g == GCD(Abs(n), Abs(d))
        s == IF d < 0 THEN -1 ELSE 1
    IN  <<(s * n) \div g, (s * d) \div g>>

Int2Rat(i) == <<i, 1>>

RAdd(x, y) == Rat(x[1] * y[2] + y[1] * x[2], x[2] * y[2])

RSub(x, y) == Rat(x[1] * y[2] - y[1] * x[2], x[2] * y[2])

RMul(x, y) == Rat(x[1] * y[1], x[2] * y[2])

RDiv(x, y) == Rat(x[1] * y[2], x[2] * y[1])

RLess(x, y) == x[1] * y[2] < y[1] * x[2]

RLeq(x, y) == x[1] * y[2] <= y[1] * x[2]

(* The slip of leaving abs() out *)
RAbsSigned(x) == x

RAbs(x) == <<Abs(x[1]), x[2]>>

RECURSIVE Pow10(_)
Pow10(k) == IF k = 0 THEN 1 ELSE 10 * Pow10(k - 1)

(* Python's round(x, ndigits): the nearest multiple of 10^-ndigits, a tie  *)
(* going to the even multiple.                                             *)
PyRound(x, ndigits) ==
    LET p    == Pow10(ndigits)
        num  == Abs(x[1]) * p
        q    == num \div x[2]
        r2   == 2 * (num % x[2])
        up   == r2 > x[2] \/ (r2 = x[2] /\ q % 2 = 1)
        m    == IF up THEN q + 1 ELSE q
    IN  Rat(IF x[1] < 0 THEN -m ELSE m, p)

(* sum(xs), which starts from 0 and adds from the left *)
RECURSIVE SumFrom(_, _, _)
SumFrom(acc, xs, i) ==
    IF i > Len(xs) THEN acc ELSE SumFrom(RAdd(acc, xs[i]), xs, i + 1)

PySum(xs) == SumFrom(Int2Rat(0), xs, 1)

(* max(xs) of a non-empty sequence: the first of the greatest *)
RECURSIVE MaxFrom(_, _, _)
MaxFrom(best, xs, i) ==
    IF i > Len(xs) THEN best
    ELSE MaxFrom(IF RLess(best, xs[i]) THEN xs[i] ELSE best, xs, i + 1)

PyMax(xs) == MaxFrom(xs[1], xs, 2)

(* bool(v) of an optional float: None and 0.0 are false *)
Truthy(v) == ~IsNone(v) /\ v[1] # 0

(* What a call gives back: the exception it raised ("" for none) and the  *)
(* value it returned.                                                      *)
Return(v) == [exc |-> "", value |-> v]

Raise(e) == [exc |-> e, value |-> <<>>]

-----------------------------------------------------------------------------
(* ArbitrageAnalyzer: the arithmetic *)

(* The slip of rejecting negative odds only *)
implied_probability_negative_only(odds) ==
    IF RLess(odds, Int2Rat(0)) THEN Raise("ValueError")
    ELSE Return(RDiv(Int2Rat(1), odds))

calculate_implied_probability(odds) ==
    IF RLeq(odds, Int2Rat(0)) THEN Raise("ValueError")
    ELSE Return(RDiv(Int2Rat(1), odds))

(* The slip of subtracting the sum from 1 *)
arbitrage_margin_inverted(probabilities) ==
    RSub(Int2Rat(1), PySum(probabilities))

calculate_arbitrage_margin(probabilities) ==
    RSub(PySum(probabilities), Int2Rat(1))

(* The slip of answering bad odds with no stakes in place of an error *)
stake_distribution_empty_result(odds, total_stake) ==
    IF Len(odds) = 0 \/ \E i \in 1..Len(odds) : RLeq(odds[i], Int2Rat(0))
    THEN Return(<<>>)
    ELSE LET total_inverse_odds ==
                 PySum([i \in 1..Len(odds) |-> RDiv(Int2Rat(1), odds[i])])
         IN  Return([i \in 1..Len(odds) |->
                 RDiv(total_stake, RMul(total_inverse_odds, odds[i]))])

(* The slip of staking in proportion to the odds, not to their inverses *)
stake_distribution_proportional(odds, total_stake) ==
    IF Len(odds) = 0 \/ \E i \in 1..Len(odds) : RLeq(odds[i], Int2Rat(0))
    THEN Raise("ValueError")
    ELSE Return([i \in 1..Len(odds) |->
                 RDiv(RMul(total_stake, odds[i]), PySum(odds))])

(* The slip of leaving out the division by the sum of the inverse odds *)
stake_distribution_unnormalised(odds, total_stake) ==
    IF Len(odds) = 0 \/ \E i \in 1..Len(odds) : RLeq(odds[i], Int2Rat(0))
    THEN Raise("ValueError")
    ELSE Return([i \in 1..Len(odds) |-> RDiv(total_stake, odds[i])])

calculate_stake_distribution(odds, total_stake) ==
    IF Len(odds) = 0 \/ \E i \in 1..Len(odds) : RLeq(odds[i], Int2Rat(0))
    THEN Raise("ValueError")
    ELSE LET total_inverse_odds ==
                 PySum([i \in 1..Len(odds) |-> RDiv(Int2Rat(1), odds[i])])
         IN  Return([i \in 1..Len(odds) |->
                 RDiv(total_stake, RMul(total_inverse_odds, odds[i]))])

-----------------------------------------------------------------------------
(* ArbitrageAnalyzer: the markets *)

(* next(odds.source for odds in valid_odds if odds.<attr> == best): the    *)
(* source of the first record, in list order, that quotes the best value.  *)
(* The best value is the maximum over valid_odds, so one always does.      *)
(* The slip of reporting the first record's source whatever it quotes *)
NextSourceFirst(valid_odds, attr, best, i) == valid_odds[1].source

(* The slip of reporting the last record that quotes the best value *)
NextSourceLast(valid_odds, attr, best, i) ==
    LET tying == { j \in 1..Len(valid_odds) : valid_odds[j][attr] = best }
    IN  valid_odds[CHOOSE j \in tying : \A k \in tying : k <= j].source

RECURSIVE NextSource(_, _, _, _)
NextSource(valid_odds, attr, best, i) ==
    IF valid_odds[i][attr] = best THEN valid_odds[i].source
    ELSE NextSource(valid_odds, attr, best, i + 1)

(* The slip of taking the first quoted value for the greatest *)
BestOfFirst(valid_odds, attr) ==
    LET quoted == SelectSeq(valid_odds, LAMBDA odds : ~IsNone(odds[attr]))
    IN  quoted[1][attr]

(* max(odds.<attr> for odds in valid_odds if odds.<attr> is not None) *)
BestOf(valid_odds, attr) ==
    LET quoted == SelectSeq(valid_odds, LAMBDA odds : ~IsNone(odds[attr]))
    IN  PyMax([i \in 1..Len(quoted) |-> quoted[i][attr]])

(* "if len(valid_odds) < 2": too few records to compare *)
TooFewNone(valid_odds) == Len(valid_odds) < 1

TooFew(valid_odds) == Len(valid_odds) < 2

(* "if margin < 0": an arbitrage opportunity *)
IsArbitrageNonStrict(margin) == RLeq(margin, Int2Rat(0))

IsArbitrage(margin) == RLess(margin, Int2Rat(0))

(* The dictionary built under "if margin < 0" for the best odds of the     *)
(* named outcomes.  Every best value is a value of a validated record,     *)
(* hence positive, and calculate_implied_probability does not raise.       *)
Opportunity(outcomes, best, source) ==
    LET n == Len(outcomes)
        probabilities ==
            [i \in 1..n |-> calculate_implied_probability(best[i]).value]
        margin == calculate_arbitrage_margin(probabilities)
    IN  [arbitrage |-> IsArbitrage(margin),
         details |->
            [profit_margin_percent |->
                 PyRound(RMul(RAbs(margin), Int2Rat(100)), 2),
             total_implied_probability |-> PyRound(PySum(probabilities), 4),
             best_odds |-> [o \in {outcomes[i] : i \in 1..n} |->
                 best[CHOOSE i \in 1..n : outcomes[i] = o]],
             sources |-> [o \in {outcomes[i] : i \in 1..n} |->
                 source[CHOOSE i \in 1..n : outcomes[i] = o]],
             stake_distribution_100 |->
                 calculate_stake_distribution(best, Int2Rat(100)).value]]

EmptyDict == [k \in {} |-> <<>>]

(* dict.update: the keys of d2 are added to d1, replacing equal keys *)
Update(d1, d2) == d2 @@ d1

analyze_1x2_market(list) ==
    LET valid_odds == SelectSeq(list, LAMBDA odds :
            Truthy(odds.home_win) /\ Truthy(odds.draw) /\ Truthy(odds.away_win))
    IN  IF TooFew(valid_odds) THEN EmptyDict
        ELSE
          LET best_home_odds == BestOf(valid_odds, "home_win")
              best_draw_odds == BestOf(valid_odds, "draw")
              best_away_odds == BestOf(valid_odds, "away_win")
              home_source == NextSource(valid_odds, "home_win", best_home_odds, 1)
              draw_source == NextSource(valid_odds, "draw", best_draw_odds, 1)
              away_source == NextSource(valid_odds, "away_win", best_away_odds, 1)
              opp == Opportunity(<<"home", "draw", "away">>,
                        <<best_home_odds, best_draw_odds, best_away_odds>>,
                        <<home_source, draw_source, away_source>>)
          IN  IF opp.arbitrage THEN [k \in {"1x2"} |-> opp.details]
              ELSE EmptyDict

(* The lines of the over/under loop: market name, over field, under field *)
ou_markets ==
    << <<"over_under_2_5", "over_2_5", "under_2_5">>,
       <<"over_under_3_5", "over_3_5", "under_3_5">> >>

(* One iteration of the loop over ou_markets *)
analyze_over_under_line(list, market_name, over_attr, under_attr) ==
    LET valid_odds == SelectSeq(list, LAMBDA odds :
            Truthy(odds[over_attr]) /\ Truthy(odds[under_attr]))
    IN  IF TooFew(valid_odds) THEN EmptyDict
        ELSE
          LET best_over == BestOf(valid_odds, over_attr)
              best_under == BestOf(valid_odds, under_attr)
              over_source == NextSource(valid_odds, over_attr, best_over, 1)
              under_source == NextSource(valid_odds, under_attr, best_under, 1)
              opp == Opportunity(<<"over", "under">>,
                        <<best_over, best_under>>,
                        <<over_source, under_source>>)
          IN  IF opp.arbitrage THEN [k \in {market_name} |-> opp.details]
              ELSE EmptyDict

RECURSIVE OverUnderFrom(_, _, _)
OverUnderFrom(opportunities, list, i) ==
    IF i > Len(ou_markets) THEN opportunities
    ELSE OverUnderFrom(
            Update(opportunities,
                   analyze_over_under_line(list, ou_markets[i][1],
                                           ou_markets[i][2], ou_markets[i][3])),
            list, i + 1)

analyze_over_under_markets(list) == OverUnderFrom(EmptyDict, list, 1)

(* The slip of a filter copied from the over/under loop and kept in part *)
CompleteBttsAndOver(odds) ==
    /\ Truthy(odds.over_2_5)
    /\ Truthy(odds.both_teams_score_yes) /\ Truthy(odds.both_teams_score_no)

(* "if odds.both_teams_score_yes and odds.both_teams_score_no" *)
CompleteBtts(odds) ==
    Truthy(odds.both_teams_score_yes) /\ Truthy(odds.both_teams_score_no)

analyze_btts_market(list) ==
    LET valid_odds == SelectSeq(list, CompleteBtts)
    IN  IF TooFew(valid_odds) THEN EmptyDict
        ELSE
          LET best_yes == BestOf(valid_odds, "both_teams_score_yes")
              best_no == BestOf(valid_odds, "both_teams_score_no")
              yes_source ==
                  NextSource(valid_odds, "both_teams_score_yes", best_yes, 1)
              no_source ==
                  NextSource(valid_odds, "both_teams_score_no", best_no, 1)
              opp == Opportunity(<<"yes", "no">>, <<best_yes, best_no>>,
                                 <<yes_source, no_source>>)
          IN  IF opp.arbitrage THEN [k \in {"both_teams_score"} |-> opp.details]
              ELSE EmptyDict

(* The slip of leaving the last market out of the union *)
OpportunitiesWithoutBtts(list) ==
    IF Len(list) < 2 THEN EmptyDict
    ELSE Update(Update(EmptyDict, analyze_1x2_market(list)),
                analyze_over_under_markets(list))

(* The slip of answering a short list with a "no data" entry *)
OpportunitiesNoData(list) ==
    IF Len(list) < 2 THEN [k \in {"1x2"} |-> "no data"]
    ELSE Update(Update(Update(EmptyDict, analyze_1x2_market(list)),
                       analyze_over_under_markets(list)),
                analyze_btts_market(list))

(* The dictionary find_arbitrage_opportunities returns for a list *)
Opportunities(list) ==
    IF Len(list) < 2 THEN EmptyDict
    ELSE Update(Update(Update(EmptyDict, analyze_1x2_market(list)),
                       analyze_over_under_markets(list)),
                analyze_btts_market(list))

(* The slip of taking the percentage for the fraction *)
PotentialProfitOfPercent(opportunities, total_stake) ==
    [market \in DOMAIN opportunities |->
        PyRound(RMul(total_stake, opportunities[market].profit_margin_percent),
                2)]

(* The dictionary calculate_potential_profit returns *)
PotentialProfit(opportunities, total_stake) ==
    [market \in DOMAIN opportunities |->
        LET profit_margin ==
                RDiv(opportunities[market].profit_margin_percent, Int2Rat(100))
            potential_profit == RMul(total_stake, profit_margin)
        IN  PyRound(potential_profit, 2)]

-----------------------------------------------------------------------------
(* The inputs *)

(* The longest odds_list *)
MaxRecords == 3

(* The longest odds_list whose report goes to calculate_potential_profit *)
MaxProfitRecords == 2

(* The longest odds sequence handed to calculate_stake_distribution *)
MaxOdds == 3

(* The provider of the record at each position: the records of one list    *)
(* come from different sources.                                            *)
Providers == <<"Sisal", "Lottomatica", "Bookmaker_A", "Bookmaker_B">>

F(n, d) == Rat(n, d)

(* What one provider may quote on the 1X2 market: nothing, a part of the   *)
(* outcomes, or every outcome.  <<home_win, draw, away_win>>               *)
Quotes1x2 ==
    { <<None, None, None>>,
      <<F(5, 1), None, F(5, 1)>>,
      <<F(4, 1), F(2, 1), F(4, 1)>>,
      <<F(2, 1), F(4, 1), F(2, 1)>> }

(* What it may quote on the other markets:                                 *)
(* <<over_2_5, under_2_5, over_3_5, under_3_5, both_teams_score_yes,       *)
(*   both_teams_score_no, home_or_draw, away_or_draw, home_or_away>>       *)
QuotesOther ==
    { <<None, None, None, None, None, None, None, None, None>>,
      <<F(3, 2), F(2, 1), None, None, None, None, None, None, None>>,
      <<F(4, 1), None, F(3, 1), F(3, 1), F(2, 1), F(3, 1), F(4, 1), F(4, 1), F(4, 1)>>,
      <<F(3, 1), F(3, 2), F(4, 1), F(3, 1), F(3, 1), F(2, 1), F(4, 1), F(4, 1), F(4, 1)>> }

(* BettingOdds(...): the fields the analyzer reads.  Every value drawn     *)
(* above is None or positive, so _validate accepts the record.             *)
BettingOdds(source, x, o) ==
    [source |-> source, match_id |-> "match_1",
     home_win |-> x[1], draw |-> x[2], away_win |-> x[3],
     home_or_draw |-> o[7], away_or_draw |-> o[8], home_or_away |-> o[9],
     over_2_5 |-> o[1], under_2_5 |-> o[2],
     over_3_5 |-> o[3], under_3_5 |-> o[4],
     both_teams_score_yes |-> o[5], both_teams_score_no |-> o[6]]

(* The list of the records built from one choice of quotes per position *)
ListOf(q) ==
    [i \in 1..Len(q) |-> BettingOdds(Providers[i], q[i][1], q[i][2])]

(* The longest odds_list of records that quote nearly fair markets *)
MaxTightRecords == 2

(* Quotes whose best odds leave a margin of 0 or just below it, on the 1X2 *)
(* market: <<home_win, draw, away_win>>                                    *)
Tight1x2 ==
    { <<None, None, None>>,
      <<F(2, 1), F(3, 1), F(6, 1)>>,
      <<F(2, 1), F(3, 1), F(6001, 1000)>> }

(* and on over/under 2.5, in the order of QuotesOther *)
TightOther ==
    { <<None, None, None, None, None, None, None, None, None>>,
      <<F(2, 1), F(2, 1), None, None, None, None, None, None, None>>,
      <<F(2, 1), F(10001, 5000), None, None, None, None, None, None, None>>,
      <<F(2, 1), F(20000, 9999), None, None, None, None, None, None, None>>,
      <<F(2, 1), F(201, 100), None, None, None, None, None, None, None>> }

(* BettingOdds: the validated fields that name the quote, and the odds     *)
(* fields in the order of the class body.                                  *)
IdentityFields == <<"source", "match_id", "home_team", "away_team">>

OddsFields ==
    <<"home_win", "draw", "away_win",
      "home_or_draw", "away_or_draw", "home_or_away",
      "over_2_5", "under_2_5", "over_3_5", "under_3_5",
      "both_teams_score_yes", "both_teams_score_no",
      "first_half_home_win", "first_half_draw", "first_half_away_win",
      "second_half_home_win", "second_half_draw", "second_half_away_win">>

Range(f) == { f[i] : i \in DOMAIN f }

(* The fields declared without a default, which the class has no attribute *)
(* for.                                                                    *)
RequiredFields == {"timestamp"} \cup Range(IdentityFields)

Fields == RequiredFields \cup Range(OddsFields)

(* The most records constructed, and the most assignments and deletions    *)
(* attempted on them.                                                      *)
MaxObjects == 2

MaxMutations == 1

(* The values handed to the constructor: each identity field empty or not, *)
(* and at most one odds field given, as None, negative, zero or positive.  *)
RawIdentity ==
    [source : {"", "Sisal"}, match_id : {"", "match_1"},
     home_team : {"", "Team A"}, away_team : {"", "Team B"},
     timestamp : {"t0"}]

RawOddsValues == { None, F(-3, 2), F(0, 1), F(21, 10) }

RawArguments ==
    RawIdentity \cup
    { [f \in {o} |-> v] @@ id :
        id \in RawIdentity, o \in Range(OddsFields), v \in RawOddsValues }

(* The values a caller assigns to an attribute of a record *)
AssignedValues(name) ==
    IF name \in RequiredFields THEN {"", "Modified"}
    ELSE { F(-1, 1), F(5, 2) }

(* The names a caller assigns to or deletes: fields of each kind, first    *)
(* and last of the class body among them, and a new name.                  *)
AttributeNames ==
    {"source", "away_team", "home_win", "over_2_5", "second_half_away_win",
     "handicap"}

(* The odds handed to calculate_implied_probability *)
ImpliedOdds ==
    { F(-3, 2), F(-1, 100), F(0, 1), F(1, 100), F(1, 1), F(3, 2), F(2, 1),
      F(3, 1) }

(* The longest list handed to calculate_arbitrage_margin, and its values *)
MaxProbabilities == 3

Probabilities == { F(1, 6), F(1, 4), F(1, 3), F(1, 2), F(1, 1) }

(* The total stakes handed to calculate_potential_profit *)
ProfitStakes == { F(7, 2), F(100, 1), F(1000, 1) }

(* The odds and total stakes handed to calculate_stake_distribution *)
StakeOdds == { F(-1, 1), F(0, 1), F(3, 2), F(2, 1), F(3, 1), F(5, 1) }

StakeTotals == { F(-50, 1), F(0, 1), F(1, 2), F(100, 1) }

NotCalled == [exc |-> "NotCalled", value |-> <<>>]

-----------------------------------------------------------------------------
(* The calls *)

(* No operation on a record yet *)
NothingDone == [op |-> "", exc |-> "", value |-> <<>>]

(* No record has been constructed *)
RecordIdle ==
    raw = <<>> /\ heap = <<>> /\ last = NothingDone /\ mutations = 0

(* Neither calculate_implied_probability nor calculate_arbitrage_margin    *)
(* has been called.                                                        *)
ArithIdle ==
    /\ ip_odds = Int2Rat(0) /\ ip_result = NotCalled
    /\ am_probabilities = <<>> /\ am_result = NotCalled

(* CSVBettingOddsStorage.__init__: not initialized, no file path yet *)
NoPath == "None"

NewStorage == [is_initialized |-> FALSE, csv_file_path |-> NoPath]

(* The session file does not exist *)
NoFile == [exists |-> FALSE, header |-> <<>>, rows |-> <<>>]

NoCall == [op |-> "", exc |-> "", arg |-> <<>>, n |-> 0, prev |-> ""]

(* No storage is in use *)
StorageIdle ==
    /\ storage = NewStorage /\ csvfile = NoFile
    /\ lifecycle = "new" /\ st_last = NoCall

(* ScraperBase.__init__: not running; scrape() has no locals yet *)
NewScraper ==
    [is_running |-> FALSE, is_continuous |-> FALSE, session_end_time |-> -1,
     interval_seconds |-> 0, successful_scrapes |-> 0, failed_scrapes |-> 0,
     scraped_data |-> <<>>]

NoResult ==
    [successful_scrapes |-> -1, failed_scrapes |-> -1, total_scrapes |-> -1,
     data |-> <<>>]

(* No scraper is in use *)
ScrapeIdle ==
    /\ scraper = NewScraper /\ now = 0 /\ attempts = 0 /\ accepted = 0
    /\ after_end = 0 /\ result = NoResult

InitAnalyzer(longest) ==
    /\ \E n \in 0..longest :
         \E q \in [1..n -> Quotes1x2 \X QuotesOther] :
            odds_list = ListOf(q)
    /\ pc = "input"
    /\ report = EmptyDict
    /\ first_report = EmptyDict
    /\ profits = EmptyDict
    /\ profit_stake = Int2Rat(0)

InitStake ==
    /\ sd_odds \in UNION { [1..n -> StakeOdds] : n \in 0..MaxOdds }
    /\ sd_total \in StakeTotals
    /\ sd_result = NotCalled

Init ==
    /\ InitAnalyzer(MaxRecords)
    /\ sd_odds = <<>> /\ sd_total = Int2Rat(0) /\ sd_result = NotCalled
    /\ RecordIdle /\ ArithIdle /\ StorageIdle /\ ScrapeIdle

(* The slip of walking the records in no fixed order, as if held in a set *)
find_arbitrage_opportunities_unordered ==
    /\ pc \in {"input", "analyzed"}
    /\ \E p \in Permutations(1..Len(odds_list)) :
          report' = Opportunities([i \in 1..Len(odds_list) |-> odds_list[p[i]]])
    /\ first_report' = IF pc = "input" THEN report' ELSE first_report
    /\ pc' = IF pc = "input" THEN "analyzed" ELSE "reanalyzed"
    /\ UNCHANGED <<odds_list, profits, profit_stake, sd_odds, sd_total,
                   sd_result>>
    /\ UNCHANGED <<record_vars, arith_vars, storage_vars, scrape_vars>>

(* find_arbitrage_opportunities(odds_list), called a first and a second    *)
(* time on the same list.  It reads odds_list and builds a new dictionary. *)
find_arbitrage_opportunities ==
    /\ pc \in {"input", "analyzed"}
    /\ report' = Opportunities(odds_list)
    /\ first_report' = IF pc = "input" THEN report' ELSE first_report
    /\ pc' = IF pc = "input" THEN "analyzed" ELSE "reanalyzed"
    /\ UNCHANGED <<odds_list, profits, profit_stake, sd_odds, sd_total,
                   sd_result>>
    /\ UNCHANGED <<record_vars, arith_vars, storage_vars, scrape_vars>>

(* The slip of turning the percentage into a fraction in place *)
calculate_potential_profit_in_place(total_stake) ==
    /\ pc = "analyzed"
    /\ profits' = PotentialProfit(report, total_stake)
    /\ report' = [m \in DOMAIN report |->
            [report[m] EXCEPT !.profit_margin_percent = RDiv(@, Int2Rat(100))]]
    /\ profit_stake' = total_stake
    /\ pc' = "profit"
    /\ UNCHANGED <<odds_list, first_report, sd_odds, sd_total, sd_result>>
    /\ UNCHANGED <<record_vars, arith_vars, storage_vars, scrape_vars>>

(* calculate_potential_profit(report, total_stake): it reads the           *)
(* opportunities and builds a new dictionary.                              *)
calculate_potential_profit(total_stake) ==
    /\ pc = "analyzed"
    /\ profits' = PotentialProfit(report, total_stake)
    /\ profit_stake' = total_stake
    /\ pc' = "profit"
    /\ UNCHANGED <<odds_list, report, first_report, sd_odds, sd_total,
                   sd_result>>
    /\ UNCHANGED <<record_vars, arith_vars, storage_vars, scrape_vars>>

Next == find_arbitrage_opportunities

Spec == Init /\ [][Next]_vars

(* find_arbitrage_opportunities and then calculate_potential_profit *)
InitProfit ==
    /\ InitAnalyzer(MaxProfitRecords)
    /\ sd_odds = <<>> /\ sd_total = Int2Rat(0) /\ sd_result = NotCalled
    /\ RecordIdle /\ ArithIdle /\ StorageIdle /\ ScrapeIdle

NextProfit ==
    \/ find_arbitrage_opportunities
    \/ \E total_stake \in ProfitStakes : calculate_potential_profit(total_stake)

SpecProfit == InitProfit /\ [][NextProfit]_vars

(* find_arbitrage_opportunities on records that quote nearly fair markets *)
InitTight ==
    /\ \E n \in 0..MaxTightRecords :
         \E q \in [1..n -> Tight1x2 \X TightOther] :
            odds_list = ListOf(q)
    /\ pc = "input"
    /\ report = EmptyDict /\ first_report = EmptyDict
    /\ profits = EmptyDict /\ profit_stake = Int2Rat(0)
    /\ sd_odds = <<>> /\ sd_total = Int2Rat(0) /\ sd_result = NotCalled
    /\ RecordIdle /\ ArithIdle /\ StorageIdle /\ ScrapeIdle

NextTight == find_arbitrage_opportunities

SpecTight == InitTight /\ [][NextTight]_vars

(* find_arbitrage_opportunities on the sample records of the tests *)

(* A record of one source for one match; o in the order of QuotesOther *)
Sample(source, match_id, x, o) ==
    [BettingOdds(source, x, o) EXCEPT !.match_id = match_id]

create_sample_psg_atletico ==
    Sample("SampleBookmaker", "psg_vs_atletico_2025",
           <<F(21, 10), F(17, 5), F(16, 5)>>,
           <<F(37, 20), F(39, 20), None, None, F(17, 10), F(43, 20),
             F(5, 4), F(33, 20), F(13, 10)>>)

create_multiple_sources_sample ==
    << Sample("Bookmaker_1", "psg_vs_atletico_2025",
              <<F(11, 5), F(33, 10), F(31, 10)>>,
              <<F(9, 5), F(2, 1), None, None, F(33, 20), F(11, 5),
                None, None, None>>),
       Sample("Bookmaker_2", "psg_vs_atletico_2025",
              <<F(41, 20), F(7, 2), F(17, 5)>>,
              <<F(19, 10), F(19, 10), None, None, F(7, 4), F(21, 10),
                None, None, None>>),
       Sample("Bookmaker_3", "psg_vs_atletico_2025",
              <<F(43, 20), F(67, 20), F(13, 4)>>,
              <<F(37, 20), F(41, 20), None, None, F(9, 5), F(2, 1),
                None, None, None>>) >>

create_arbitrage_opportunity_sample ==
    << Sample("Bookmaker_A", "arbitrage_example",
              <<F(5, 2), F(16, 5), F(14, 5)>>,
              <<F(21, 10), F(9, 5), None, None, None, None,
                None, None, None>>),
       Sample("Bookmaker_B", "arbitrage_example",
              <<F(21, 10), F(19, 5), F(16, 5)>>,
              <<F(37, 20), F(41, 20), None, None, None, None,
                None, None, None>>) >>

SampleRecords ==
    {create_sample_psg_atletico}
        \cup Range(create_multiple_sources_sample)
        \cup Range(create_arbitrage_opportunity_sample)

(* The longest odds_list of sample records *)
MaxSampleRecords == 2

InitSample ==
    /\ odds_list \in UNION { [1..n -> SampleRecords] : n \in 0..MaxSampleRecords }
    /\ pc = "input"
    /\ report = EmptyDict /\ first_report = EmptyDict
    /\ profits = EmptyDict /\ profit_stake = Int2Rat(0)
    /\ sd_odds = <<>> /\ sd_total = Int2Rat(0) /\ sd_result = NotCalled
    /\ RecordIdle /\ ArithIdle /\ StorageIdle /\ ScrapeIdle

NextSample == find_arbitrage_opportunities

SpecSample == InitSample /\ [][NextSample]_vars

(* BettingOdds: construction, and what a caller can do with a record *)

(* The slip of rejecting negative odds only *)
NegativeOnly(odds) == ~IsNone(odds) /\ RLess(odds, Int2Rat(0))

(* "if odds is not None and odds <= 0" *)
NonPositive(odds) == ~IsNone(odds) /\ RLeq(odds, Int2Rat(0))

(* _validate: "not self.source" holds of the empty string *)
validate(self) ==
    IF self.source = "" THEN Raise("ValueError")
    ELSE IF self.match_id = "" THEN Raise("ValueError")
    ELSE IF self.home_team = "" \/ self.away_team = "" THEN Raise("ValueError")
    ELSE IF \E i \in 1..Len(OddsFields) : NonPositive(self[OddsFields[i]])
         THEN Raise("ValueError")
    ELSE Return(None)

(* BettingOdds(...): the generated         __init__ sets every field from its *)
(* argument or its default None, then __post_init__ validates; when that   *)
(* raises, the caller gets no object.  Every required field is given.      *)
BettingOddsInit(kwargs) ==
    LET self == [f \in Fields |->
                    IF f \in DOMAIN kwargs THEN kwargs[f] ELSE None]
        validated == validate(self)
    IN  IF validated.exc # "" THEN validated ELSE Return(self)

(* getattr(self, name): the instance's attribute, or the class's: a field  *)
(* with a default has the class attribute None, a required field has none. *)
HasAttr(self, name) ==
    name \in DOMAIN self \/ name \in Range(OddsFields)

GetAttr(self, name) ==
    IF name \in DOMAIN self THEN self[name] ELSE None

InitRecord ==
    /\ raw \in RawArguments
    /\ heap = <<>> /\ last = NothingDone /\ mutations = 0
    /\ pc = "record"
    /\ odds_list = <<>> /\ report = EmptyDict /\ first_report = EmptyDict
    /\ profits = EmptyDict /\ profit_stake = Int2Rat(0)
    /\ sd_odds = <<>> /\ sd_total = Int2Rat(0) /\ sd_result = NotCalled
    /\ ArithIdle /\ StorageIdle /\ ScrapeIdle

(* r = BettingOdds(...) with the keyword arguments raw *)
Construct ==
    /\ pc = "record"
    /\ Len(heap) < MaxObjects
    /\ LET r == BettingOddsInit(raw)
       IN  IF r.exc = ""
           THEN /\ heap' = Append(heap, r.value)
                /\ last' = [op |-> "init", exc |-> "", value |-> Len(heap) + 1]
           ELSE /\ heap' = heap
                /\ last' = [op |-> "init", exc |-> r.exc, value |-> <<>>]
    /\ UNCHANGED <<odds_list, pc, report, first_report, profits, profit_stake,
                   sd_odds, sd_total, sd_result, raw, mutations, arith_vars>>
    /\ UNCHANGED <<storage_vars, scrape_vars>>

(* heap[i].name = value: the class is a plain @dataclass, neither frozen   *)
(* nor slotted, so object.__setattr__ stores the value, under a new name   *)
(* too, and nothing validates it.                                          *)
SetAttr(i, name, value) ==
    /\ pc = "record"
    /\ mutations < MaxMutations
    /\ heap' = [heap EXCEPT ![i] =
            [n \in DOMAIN @ \cup {name} |-> IF n = name THEN value ELSE @[n]]]
    /\ last' = [op |-> "setattr", exc |-> "", value |-> <<>>]
    /\ mutations' = mutations + 1
    /\ UNCHANGED <<odds_list, pc, report, first_report, profits, profit_stake,
                   sd_odds, sd_total, sd_result, raw, arith_vars>>
    /\ UNCHANGED <<storage_vars, scrape_vars>>

(* del heap[i].name: object.__delattr__ removes an instance attribute and  *)
(* raises AttributeError when the instance has none of that name.          *)
DelAttr(i, name) ==
    /\ pc = "record"
    /\ mutations < MaxMutations
    /\ IF name \in DOMAIN heap[i]
       THEN /\ heap' = [heap EXCEPT ![i] =
                    [n \in DOMAIN @ \ {name} |-> @[n]]]
            /\ last' = [op |-> "delattr", exc |-> "", value |-> <<>>]
       ELSE /\ heap' = heap
            /\ last' = [op |-> "delattr", exc |-> "AttributeError",
                        value |-> <<>>]
    /\ mutations' = mutations + 1
    /\ UNCHANGED <<odds_list, pc, report, first_report, profits, profit_stake,
                   sd_odds, sd_total, sd_result, raw, arith_vars>>
    /\ UNCHANGED <<storage_vars, scrape_vars>>

(* hash(heap[i]): @dataclass with eq=True and frozen=False sets __hash__   *)
(* to None, so the object is unhashable.                                   *)
Hash(i) ==
    /\ pc = "record"
    /\ last' = [op |-> "hash", exc |-> "TypeError", value |-> <<>>]
    /\ UNCHANGED <<odds_list, pc, report, first_report, profits, profit_stake,
                   sd_odds, sd_total, sd_result, raw, heap, mutations,
                   arith_vars>>
    /\ UNCHANGED <<storage_vars, scrape_vars>>

(* heap[i] == heap[j]: the generated __eq__ compares the tuples of the     *)
(* fields, read with getattr.                                              *)
Eq(i, j) ==
    /\ pc = "record"
    /\ IF \E f \in Fields : ~HasAttr(heap[i], f) \/ ~HasAttr(heap[j], f)
       THEN last' = [op |-> "eq", exc |-> "AttributeError", value |-> <<>>]
       ELSE last' = [op |-> "eq", exc |-> "",
                     value |-> \A f \in Fields :
                        GetAttr(heap[i], f) = GetAttr(heap[j], f)]
    /\ UNCHANGED <<odds_list, pc, report, first_report, profits, profit_stake,
                   sd_odds, sd_total, sd_result, raw, heap, mutations,
                   arith_vars>>
    /\ UNCHANGED <<storage_vars, scrape_vars>>

(* {heap[i], heap[j]}: building the set hashes its elements *)
SetOf(i, j) ==
    /\ pc = "record"
    /\ last' = [op |-> "set", exc |-> "TypeError", value |-> <<>>]
    /\ UNCHANGED <<odds_list, pc, report, first_report, profits, profit_stake,
                   sd_odds, sd_total, sd_result, raw, heap, mutations,
                   arith_vars>>
    /\ UNCHANGED <<storage_vars, scrape_vars>>

NextRecord ==
    \/ Construct
    \/ \E i \in 1..Len(heap) : \E name \in AttributeNames :
          \E value \in AssignedValues(name) : SetAttr(i, name, value)
    \/ \E i \in 1..Len(heap) : \E name \in AttributeNames : DelAttr(i, name)
    \/ \E i \in 1..Len(heap) : Hash(i)
    \/ \E i, j \in 1..Len(heap) : Eq(i, j)
    \/ \E i, j \in 1..Len(heap) : SetOf(i, j)

SpecRecord == InitRecord /\ [][NextRecord]_vars

(* calculate_implied_probability and calculate_arbitrage_margin on their   *)
(* own, each called once.                                                  *)
InitArith ==
    /\ ip_odds \in ImpliedOdds
    /\ ip_result = NotCalled
    /\ am_probabilities
          \in UNION { [1..n -> Probabilities] : n \in 0..MaxProbabilities }
    /\ am_result = NotCalled
    /\ pc = "arith"
    /\ odds_list = <<>> /\ report = EmptyDict /\ first_report = EmptyDict
    /\ profits = EmptyDict /\ profit_stake = Int2Rat(0)
    /\ sd_odds = <<>> /\ sd_total = Int2Rat(0) /\ sd_result = NotCalled
    /\ RecordIdle /\ StorageIdle /\ ScrapeIdle

ImpliedProbabilityCall ==
    /\ pc = "arith"
    /\ ip_result = NotCalled
    /\ ip_result' = calculate_implied_probability(ip_odds)
    /\ UNCHANGED <<odds_list, pc, report, first_report, profits, profit_stake,
                   sd_odds, sd_total, sd_result, record_vars, ip_odds,
                   am_probabilities, am_result>>
    /\ UNCHANGED <<storage_vars, scrape_vars>>

(* calculate_arbitrage_margin has no raise statement: it returns *)
ArbitrageMarginCall ==
    /\ pc = "arith"
    /\ am_result = NotCalled
    /\ am_result' = Return(calculate_arbitrage_margin(am_probabilities))
    /\ UNCHANGED <<odds_list, pc, report, first_report, profits, profit_stake,
                   sd_odds, sd_total, sd_result, record_vars, ip_odds,
                   ip_result, am_probabilities>>
    /\ UNCHANGED <<storage_vars, scrape_vars>>

NextArith == ImpliedProbabilityCall \/ ArbitrageMarginCall

SpecArith == InitArith /\ [][NextArith]_vars

(* calculate_stake_distribution on its own *)
InitStakeOnly ==
    /\ InitStake
    /\ odds_list = <<>> /\ pc = "sd_input" /\ report = EmptyDict
    /\ first_report = EmptyDict /\ profits = EmptyDict
    /\ profit_stake = Int2Rat(0)
    /\ RecordIdle /\ ArithIdle /\ StorageIdle /\ ScrapeIdle

StakeDistributionCall ==
    /\ pc = "sd_input"
    /\ sd_result' = calculate_stake_distribution(sd_odds, sd_total)
    /\ pc' = "sd_done"
    /\ UNCHANGED <<odds_list, report, first_report, profits, profit_stake,
                   sd_odds, sd_total>>
    /\ UNCHANGED <<record_vars, arith_vars, storage_vars, scrape_vars>>

NextStake == StakeDistributionCall

SpecStake == InitStakeOnly /\ [][NextStake]_vars

-----------------------------------------------------------------------------
(* CSVBettingOddsStorage (src/storage/storage_csv.py) over its session     *)
(* file.  The file system is taken to work: mkdir and open do not fail.    *)

(* self._fieldnames: the columns of the file *)
fieldnames ==
    <<"timestamp", "source", "match_id", "home_team", "away_team",
      "home_win", "draw", "away_win",
      "home_or_draw", "away_or_draw", "home_or_away",
      "over_1_5", "under_1_5", "over_2_5", "under_2_5",
      "over_3_5", "under_3_5",
      "both_teams_score_yes", "both_teams_score_no">>

(* The path initialize() builds from output_dir, prefix and session_id *)
SessionPath == "data/sisal_odds_session.csv"

(* The text csv writes for a value: the empty text for None *)
CsvText(v) == IF IsNone(v) THEN <<>> ELSE <<v>>

(* timestamp.isoformat() *)
isoformat(timestamp) == <<"isoformat", timestamp>>

(* _betting_odds_to_row followed by DictWriter.writerow: the cells in the  *)
(* order of the columns.  Reading an attribute the object does not have    *)
(* raises AttributeError.                                                  *)
betting_odds_to_row(betting_odds) ==
    IF \E k \in 1..Len(fieldnames) : ~HasAttr(betting_odds, fieldnames[k])
    THEN Raise("AttributeError")
    ELSE Return([k \in 1..Len(fieldnames) |->
            IF fieldnames[k] = "timestamp"
            THEN isoformat(betting_odds.timestamp)
            ELSE IF fieldnames[k] \in RequiredFields
                 THEN <<GetAttr(betting_odds, fieldnames[k])>>
                 ELSE CsvText(GetAttr(betting_odds, fieldnames[k]))])

(* _ensure_initialized *)
ensure_initialized(self) ==
    IF ~self.is_initialized THEN Raise("RuntimeError") ELSE Return(None)

(* The rows written for the records of a list up to the first record whose *)
(* row cannot be built.                                                    *)
RECURSIVE RowsOf(_, _)
RowsOf(betting_odds_list, k) ==
    IF k > Len(betting_odds_list) THEN <<>>
    ELSE LET csv_row == betting_odds_to_row(betting_odds_list[k])
         IN  IF csv_row.exc # "" THEN <<>>
             ELSE <<csv_row.value>> \o RowsOf(betting_odds_list, k + 1)

(* open(path, 'a') and the rows written before the file is closed *)
Appended(file, rows) ==
    [exists |-> TRUE, header |-> file.header, rows |-> file.rows \o rows]

(* store: what it raises, and the file after it *)
StoreResult(self, file, betting_odds) ==
    IF ensure_initialized(self).exc # ""
    THEN [exc |-> "RuntimeError", file |-> file]
    ELSE IF self.csv_file_path = NoPath
    THEN [exc |-> "RuntimeError", file |-> file]
    ELSE LET csv_row == betting_odds_to_row(betting_odds)
         IN  IF csv_row.exc # "" THEN [exc |-> csv_row.exc, file |-> file]
             ELSE [exc |-> "", file |-> Appended(file, <<csv_row.value>>)]

(* The slip of looking at the list before the state *)
store_batch_empty_first(self, file, betting_odds_list) ==
    IF betting_odds_list = <<>> THEN [exc |-> "", file |-> file]
    ELSE IF ensure_initialized(self).exc # ""
    THEN [exc |-> "RuntimeError", file |-> file]
    ELSE [exc |-> "", file |-> Appended(file, RowsOf(betting_odds_list, 1))]

(* store_batch: what it raises, and the file after it.  The rows of the    *)
(* records before the first failing one are in the file when it raises.    *)
StoreBatchResult(self, file, betting_odds_list) ==
    IF ensure_initialized(self).exc # ""
    THEN [exc |-> "RuntimeError", file |-> file]
    ELSE IF betting_odds_list = <<>> THEN [exc |-> "", file |-> file]
    ELSE IF self.csv_file_path = NoPath
    THEN [exc |-> "RuntimeError", file |-> file]
    ELSE LET rows == RowsOf(betting_odds_list, 1)
         IN  [exc |-> IF Len(rows) < Len(betting_odds_list)
                      THEN "AttributeError" ELSE "",
              file |-> Appended(file, rows)]

(* The slip of closing only what is open *)
close_strict(self) ==
    IF self.is_initialized
    THEN [exc |-> "", self |-> [self EXCEPT !.is_initialized = FALSE]]
    ELSE [exc |-> "RuntimeError", self |-> self]

(* close: what it raises, and the object after it *)
CloseResult(self) ==
    [exc |-> "",
     self |-> IF self.is_initialized
              THEN [self EXCEPT !.is_initialized = FALSE] ELSE self]

(* The most calls made on a storage, the longest list handed to            *)
(* store_batch, and the most rows a file holds before a call.              *)
MaxCalls == 4

MaxBatch == 2

MaxRows == 3

(* The records handed to the storage: records as BettingOdds(...) builds   *)
(* them, and the same after a caller has assigned the attributes over_1_5  *)
(* and under_1_5, which the class does not declare.                        *)
StorableArguments ==
    { kwargs \in RawArguments :
        /\ DOMAIN kwargs \subseteq RequiredFields \cup {"home_win"}
        /\ BettingOddsInit(kwargs).exc = "" }

ConstructedRecords ==
    { BettingOddsInit(kwargs).value : kwargs \in StorableArguments }

WithOverUnder15(self) ==
    [n \in DOMAIN self \cup {"over_1_5", "under_1_5"} |->
        IF n = "over_1_5" THEN F(13, 10)
        ELSE IF n = "under_1_5" THEN F(7, 2) ELSE self[n]]

StoredRecords ==
    ConstructedRecords \cup { WithOverUnder15(r) : r \in ConstructedRecords }

(* A session file left by an earlier run with the same session_id *)
EarlierFile ==
    [exists |-> TRUE, header |-> fieldnames,
     rows |-> RowsOf(<<WithOverUnder15(
                 BettingOddsInit(CHOOSE kwargs \in StorableArguments :
                     "home_win" \notin DOMAIN kwargs).value)>>, 1)]

InitStorage ==
    /\ storage = NewStorage
    /\ csvfile \in {NoFile, EarlierFile}
    /\ lifecycle = "new" /\ st_last = NoCall
    /\ pc = "storage"
    /\ odds_list = <<>> /\ report = EmptyDict /\ first_report = EmptyDict
    /\ profits = EmptyDict /\ profit_stake = Int2Rat(0)
    /\ sd_odds = <<>> /\ sd_total = Int2Rat(0) /\ sd_result = NotCalled
    /\ RecordIdle /\ ArithIdle /\ ScrapeIdle

(* What every call on the storage leaves alone *)
StorageFrame ==
    UNCHANGED <<odds_list, pc, report, first_report, profits, profit_stake,
                sd_odds, sd_total, sd_result, record_vars, arith_vars,
                scrape_vars>>

Called(op, exc, arg) ==
    [op |-> op, exc |-> exc, arg |-> arg, n |-> st_last.n + 1,
     prev |-> st_last.op]

(* storage.initialize(), also as __enter__ *)
initialize ==
    /\ pc = "storage" /\ st_last.n < MaxCalls
    /\ IF storage.is_initialized
       THEN UNCHANGED <<storage, csvfile>>
       ELSE /\ storage' = [is_initialized |-> TRUE,
                           csv_file_path |-> SessionPath]
            /\ csvfile' = IF csvfile.exists THEN csvfile
                          ELSE [exists |-> TRUE, header |-> fieldnames,
                                rows |-> <<>>]
    /\ lifecycle' = "initialized"
    /\ st_last' = Called("initialize", "", <<>>)
    /\ StorageFrame

(* storage.store(betting_odds) *)
store(betting_odds) ==
    /\ pc = "storage" /\ st_last.n < MaxCalls
    /\ Len(csvfile.rows) <= MaxRows
    /\ LET r == StoreResult(storage, csvfile, betting_odds)
       IN  /\ csvfile' = r.file
           /\ st_last' = Called("store", r.exc, <<betting_odds>>)
    /\ UNCHANGED <<storage, lifecycle>>
    /\ StorageFrame

(* storage.store_batch(betting_odds_list) *)
store_batch(betting_odds_list) ==
    /\ pc = "storage" /\ st_last.n < MaxCalls
    /\ Len(csvfile.rows) <= MaxRows
    /\ LET r == StoreBatchResult(storage, csvfile, betting_odds_list)
       IN  /\ csvfile' = r.file
           /\ st_last' = Called("store_batch", r.exc, betting_odds_list)
    /\ UNCHANGED <<storage, lifecycle>>
    /\ StorageFrame

(* storage.close(), also as __exit__ *)
close ==
    /\ pc = "storage" /\ st_last.n < MaxCalls
    /\ LET r == CloseResult(storage)
       IN  /\ storage' = r.self
           /\ st_last' = Called("close", r.exc, <<>>)
    /\ lifecycle' = IF lifecycle = "new" THEN "new" ELSE "closed"
    /\ UNCHANGED csvfile
    /\ StorageFrame

NextStorage ==
    \/ initialize
    \/ \E betting_odds \in StoredRecords : store(betting_odds)
    \/ \E betting_odds_list \in
            UNION { [1..n -> StoredRecords] : n \in 0..MaxBatch } :
          store_batch(betting_odds_list)
    \/ close

SpecStorage == InitStorage /\ [][NextStorage]_vars

-----------------------------------------------------------------------------
(* ScraperBase.scrape (src/scraper/scraper_base.py), one step per pass of  *)
(* its loop.  Time is counted in ticks, the unit of duration_minutes and   *)
(* of interval_seconds alike.  The browser and the page are inputs: what   *)
(* _setup_driver, _navigate_and_setup_page and _extract_betting_data give  *)
(* back.  The storage is the collaborator handed to the constructor: its   *)
(* store returns, or raises as CSVBettingOddsStorage.store does.           *)

(* The most passes of the loop *)
MaxAttempts == 4

(* duration_minutes = None *)
NoDuration == -1

Durations == {NoDuration, 0, 1, 2}

Intervals == {1, 2}

(* What _extract_betting_data gives: a record, None, or an exception of a  *)
(* subclass's override.                                                    *)
ExtractedRecord == CHOOSE r \in ConstructedRecords : ~IsNone(r.home_win)

Extractions == {"record", "None", "Exception"}

(* What storage.store(betting_odds) raises, "" for nothing *)
StoreOutcomes == {"", "AttributeError"}

(* _create_result_summary *)
create_result_summary(successful_scrapes, failed_scrapes, scraped_data) ==
    [successful_scrapes |-> successful_scrapes,
     failed_scrapes |-> failed_scrapes,
     total_scrapes |-> successful_scrapes + failed_scrapes,
     data |-> scraped_data]

InitScrape ==
    /\ scraper = NewScraper /\ now = 0 /\ attempts = 0 /\ accepted = 0
    /\ after_end = 0 /\ result = NoResult
    /\ pc = "scrape"
    /\ odds_list = <<>> /\ report = EmptyDict /\ first_report = EmptyDict
    /\ profits = EmptyDict /\ profit_stake = Int2Rat(0)
    /\ sd_odds = <<>> /\ sd_total = Int2Rat(0) /\ sd_result = NotCalled
    /\ RecordIdle /\ ArithIdle /\ StorageIdle

(* What scrape() leaves alone *)
ScrapeFrame ==
    UNCHANGED <<odds_list, report, first_report, profits, profit_stake,
                sd_odds, sd_total, sd_result, record_vars, arith_vars,
                storage_vars>>

(* scrape(url, duration_minutes, interval_seconds) up to the loop: the     *)
(* session state, then the storage, the browser and the page.  When the    *)
(* browser or the page fails it returns the summary from inside the try,   *)
(* and the finally clause clears _is_running.                              *)
scrape(duration_minutes, interval_seconds, ready) ==
    /\ pc = "scrape"
    /\ LET is_continuous ==
               duration_minutes # NoDuration /\ duration_minutes > 0
       IN  /\ scraper' =
                [is_running |-> ready,
                 is_continuous |-> is_continuous,
                 session_end_time |->
                     IF is_continuous THEN now + duration_minutes ELSE -1,
                 interval_seconds |-> interval_seconds,
                 successful_scrapes |-> 0, failed_scrapes |-> 0,
                 scraped_data |-> <<>>]
           /\ IF ready
              THEN pc' = "loop" /\ UNCHANGED result
              ELSE /\ pc' = "returned"
                   /\ result' = create_result_summary(0, 0, <<>>)
    /\ UNCHANGED <<now, attempts, accepted, after_end>>
    /\ ScrapeFrame

(* "if session_end_time and datetime.now() >= session_end_time" *)
SessionOver(self, time) ==
    self.session_end_time # -1 /\ time >= self.session_end_time

(* One pass of "while self._is_running": the extraction, which takes       *)
(* elapsed ticks, the counting, the store, and what follows: the break of  *)
(* one-shot mode, the end-of-session check and the sleep, or the except    *)
(* clause, which counts a failure and sleeps a second without the check.   *)
Iteration(extracted, store_exc, elapsed) ==
    /\ pc = "loop" /\ scraper.is_running
    /\ attempts < MaxAttempts
    /\ LET time == now + elapsed
           found == extracted = "record"
           raised == extracted = "Exception" \/ (found /\ store_exc # "")
           counted ==
               [scraper EXCEPT
                  !.successful_scrapes = IF found THEN @ + 1 ELSE @,
                  !.scraped_data =
                      IF found THEN Append(@, ExtractedRecord) ELSE @,
                  !.failed_scrapes =
                      IF extracted = "None" \/ raised THEN @ + 1 ELSE @]
       IN  /\ scraper' = counted
           /\ attempts' = attempts + 1
           /\ after_end' = IF SessionOver(scraper, now)
                           THEN after_end + 1 ELSE after_end
           /\ accepted' = IF found /\ store_exc = ""
                          THEN accepted + 1 ELSE accepted
           /\ IF ~scraper.is_continuous
              THEN pc' = "finally" /\ now' = time
              ELSE IF raised
              THEN pc' = "loop" /\ now' = time + 1
              ELSE IF SessionOver(scraper, time)
              THEN pc' = "finally" /\ now' = time
              ELSE pc' = "loop" /\ now' = time + scraper.interval_seconds
    /\ UNCHANGED result
    /\ ScrapeFrame

(* signal_handler, installed in continuous mode: SIGINT between two passes *)
signal_handler ==
    /\ pc = "loop" /\ scraper.is_continuous /\ scraper.is_running
    /\ scraper' = [scraper EXCEPT !.is_running = FALSE]
    /\ UNCHANGED <<pc, now, attempts, accepted, after_end, result>>
    /\ ScrapeFrame

(* The loop test fails *)
LoopExit ==
    /\ pc = "loop" /\ ~scraper.is_running
    /\ pc' = "finally"
    /\ UNCHANGED scrape_vars
    /\ ScrapeFrame

(* The finally clause and the summary that scrape() returns *)
ScrapeReturn ==
    /\ pc = "finally"
    /\ scraper' = [scraper EXCEPT !.is_running = FALSE]
    /\ result' = create_result_summary(scraper.successful_scrapes,
                                       scraper.failed_scrapes,
                                       scraper.scraped_data)
    /\ pc' = "returned"
    /\ UNCHANGED <<now, attempts, accepted, after_end>>
    /\ ScrapeFrame

NextScrape ==
    \/ \E duration_minutes \in Durations : \E interval_seconds \in Intervals :
          \E ready \in BOOLEAN :
             scrape(duration_minutes, interval_seconds, ready)
    \/ \E extracted \in Extractions : \E store_exc \in StoreOutcomes :
          \E elapsed \in 0..1 : Iteration(extracted, store_exc, elapsed)
    \/ signal_handler
    \/ LoopExit
    \/ ScrapeReturn

SpecScrape == InitScrape /\ [][NextScrape]_vars

-----------------------------------------------------------------------------
(* The markets, as the record groups its fields, and what the claims say   *)
(* of them, stated without the analyzer's own operators.                   *)

MarketFields(m) ==
    CASE m = "1x2" -> <<"home_win", "draw", "away_win">>
      [] m = "double_chance" -> <<"home_or_draw", "away_or_draw", "home_or_away">>
      [] m = "over_under_2_5" -> <<"over_2_5", "under_2_5">>
      [] m = "over_under_3_5" -> <<"over_3_5", "under_3_5">>
      [] m = "both_teams_score" ->
            <<"both_teams_score_yes", "both_teams_score_no">>

(* The outcome names of a market's report entry, in the order of its stakes *)
MarketOutcomes(m) ==
    CASE m = "1x2" -> <<"home", "draw", "away">>
      [] m = "double_chance" -> <<"home_or_draw", "away_or_draw", "home_or_away">>
      [] m = "over_under_2_5" -> <<"over", "under">>
      [] m = "over_under_3_5" -> <<"over", "under">>
      [] m = "both_teams_score" -> <<"yes", "no">>

(* The markets find_arbitrage_opportunities has code for *)
EvaluatedMarkets ==
    {"1x2", "over_under_2_5", "over_under_3_5", "both_teams_score"}

(* The markets the specification lists as supported *)
SupportedMarkets == EvaluatedMarkets \cup {"double_chance"}

Outcomes(m) == 1..Len(MarketFields(m))

(* The positions of the records that quote field attr *)
Providing(list, attr) == { i \in 1..Len(list) : ~IsNone(list[i][attr]) }

(* The positions of the records that quote every outcome of market m *)
Quoting(list, m) ==
    { i \in 1..Len(list) :
        \A k \in Outcomes(m) : ~IsNone(list[i][MarketFields(m)[k]]) }

(* The greatest value of field attr among the records at positions idx *)
MaxQuoted(list, idx, attr) ==
    CHOOSE v \in { list[i][attr] : i \in idx } :
        \A i \in idx : RLeq(list[i][attr], v)

RECURSIVE InverseSum(_, _, _)
InverseSum(list, m, k) ==
    IF k = 0 THEN Int2Rat(0)
    ELSE RAdd(InverseSum(list, m, k - 1),
              RDiv(Int2Rat(1),
                   MaxQuoted(list, Quoting(list, m), MarketFields(m)[k])))

(* Sum of 1/best odds over the outcomes of m, minus 1, the best odds taken *)
(* among the records that quote every outcome of m.                        *)
BestMargin(list, m) ==
    RSub(InverseSum(list, m, Len(MarketFields(m))), Int2Rat(1))

(* At least two records quote every outcome and the margin is negative *)
Arbitrage(list, m) ==
    /\ Cardinality(Quoting(list, m)) >= 2
    /\ RLess(BestMargin(list, m), Int2Rat(0))

(* A call of find_arbitrage_opportunities has returned *)
Analyzed == pc \in {"analyzed", "reanalyzed", "profit"}

(* Two reports agree on market m: on its presence and on its entry *)
SameEntry(a, b, m) ==
    /\ (m \in DOMAIN a) <=> (m \in DOMAIN b)
    /\ (m \in DOMAIN a /\ m \in DOMAIN b) => a[m] = b[m]

-----------------------------------------------------------------------------
(* C1: for every market find_arbitrage_opportunities evaluates, the report *)
(* has an entry for the market if and only if at least two input records   *)
(* quote every outcome of the market and the margin of the best odds (sum  *)
(* of 1/best odds, minus 1) is strictly negative; a margin of exactly 0    *)
(* yields no entry.                                                        *)
C1_EntryIffArbitrage ==
    Analyzed =>
        \A m \in EvaluatedMarkets :
            (m \in DOMAIN report) <=> Arbitrage(odds_list, m)

(* A report with an entry for one market and none for another market that  *)
(* two records quote completely at a margin of exactly 0.                  *)
C1_Witness ==
    /\ Analyzed
    /\ \E m \in EvaluatedMarkets : m \in DOMAIN report
    /\ \E m \in EvaluatedMarkets :
          /\ m \notin DOMAIN report
          /\ Cardinality(Quoting(odds_list, m)) >= 2
          /\ BestMargin(odds_list, m) = Int2Rat(0)

(* C2: every reported entry's stake_distribution_100 is risk-free: the     *)
(* stakes sum to 100 and, for every outcome, stake times reported best     *)
(* odds is one and the same payout, strictly greater than 100.             *)
Payout(entry, m, k) ==
    RMul(entry.stake_distribution_100[k], entry.best_odds[MarketOutcomes(m)[k]])

C2_StakesRiskFree ==
    Analyzed =>
        \A m \in DOMAIN report :
            /\ Len(report[m].stake_distribution_100) = Len(MarketOutcomes(m))
            /\ PySum(report[m].stake_distribution_100) = Int2Rat(100)
            /\ \A k \in Outcomes(m) :
                  /\ Payout(report[m], m, k) = Payout(report[m], m, 1)
                  /\ RLess(Int2Rat(100), Payout(report[m], m, k))

(* An entry whose best odds differ between outcomes, so the stakes differ *)
C2_Witness ==
    /\ Analyzed
    /\ \E m \in DOMAIN report :
          \E j, k \in Outcomes(m) :
              /\ report[m].best_odds[MarketOutcomes(m)[j]]
                     # report[m].best_odds[MarketOutcomes(m)[k]]
              /\ report[m].stake_distribution_100[j]
                     # report[m].stake_distribution_100[k]

(* C3: for every non-empty list of positive odds and every positive        *)
(* total_stake, calculate_stake_distribution returns one stake per odds    *)
(* value, stake_i * odds_i is the same constant for all i, and the stakes  *)
(* sum to total_stake.                                                     *)
PositiveOdds(odds) ==
    Len(odds) > 0 /\ \A i \in 1..Len(odds) : RLess(Int2Rat(0), odds[i])

C3_EqualPayoutStakes ==
    (pc = "sd_done" /\ PositiveOdds(sd_odds) /\ RLess(Int2Rat(0), sd_total)) =>
        /\ sd_result.exc = ""
        /\ Len(sd_result.value) = Len(sd_odds)
        /\ \A i \in 1..Len(sd_odds) :
              RMul(sd_result.value[i], sd_odds[i])
                  = RMul(sd_result.value[1], sd_odds[1])
        /\ PySum(sd_result.value) = sd_total

(* Three different positive odds and a total stake that is no integer *)
C3_Witness ==
    /\ pc = "sd_done"
    /\ PositiveOdds(sd_odds)
    /\ Len(sd_odds) = 3
    /\ sd_odds[1] # sd_odds[2] /\ sd_odds[2] # sd_odds[3]
    /\ sd_odds[1] # sd_odds[3]
    /\ sd_total = F(1, 2)
    /\ sd_result.exc = ""

(* C4 as claimed: for every report entry and every outcome, the reported   *)
(* best odds value is the maximum quoted for that outcome among all input  *)
(* records that provide that outcome.                                      *)
C4_BestAmongProviding ==
    Analyzed =>
        \A m \in DOMAIN report : \A k \in Outcomes(m) :
            report[m].best_odds[MarketOutcomes(m)[k]]
                = MaxQuoted(odds_list, Providing(odds_list, MarketFields(m)[k]),
                            MarketFields(m)[k])

(* C4 as amended: for every report entry and every outcome, the reported   *)
(* best odds value is the maximum quoted for that outcome among the input  *)
(* records that quote every outcome of the market.                         *)
C4_BestAmongComplete ==
    Analyzed =>
        \A m \in DOMAIN report : \A k \in Outcomes(m) :
            report[m].best_odds[MarketOutcomes(m)[k]]
                = MaxQuoted(odds_list, Quoting(odds_list, m), MarketFields(m)[k])

(* An entry for a market of which one record quotes a part, at a value     *)
(* above the reported best odds, while the records that quote the whole    *)
(* market differ on the outcome.                                           *)
C4_Witness ==
    /\ Analyzed
    /\ \E m \in DOMAIN report : \E k \in Outcomes(m) :
          /\ \E i \in Providing(odds_list, MarketFields(m)[k]) :
                RLess(report[m].best_odds[MarketOutcomes(m)[k]],
                      odds_list[i][MarketFields(m)[k]])
          /\ \E i, j \in Quoting(odds_list, m) :
                RLess(odds_list[i][MarketFields(m)[k]],
                      odds_list[j][MarketFields(m)[k]])

(* C5: for every report entry and every outcome, the reported source is    *)
(* the source of an input record whose value for that outcome equals the   *)
(* reported best odds; on a tie it is the source of one of the tying       *)
(* records.                                                                *)
C5_SourceQuotesBest ==
    Analyzed =>
        \A m \in DOMAIN report : \A k \in Outcomes(m) :
            \E i \in 1..Len(odds_list) :
                /\ odds_list[i].source = report[m].sources[MarketOutcomes(m)[k]]
                /\ odds_list[i][MarketFields(m)[k]]
                       = report[m].best_odds[MarketOutcomes(m)[k]]

(* An entry with an outcome whose best odds two records quote, and an      *)
(* outcome whose best odds the first record does not quote.                *)
C5_Witness ==
    /\ Analyzed
    /\ \E m \in DOMAIN report :
          /\ \E k \in Outcomes(m) : \E i, j \in Quoting(odds_list, m) :
                /\ i # j
                /\ odds_list[i][MarketFields(m)[k]]
                       = report[m].best_odds[MarketOutcomes(m)[k]]
                /\ odds_list[j][MarketFields(m)[k]]
                       = report[m].best_odds[MarketOutcomes(m)[k]]
          /\ \E k \in Outcomes(m) :
                report[m].sources[MarketOutcomes(m)[k]] # odds_list[1].source

(* C6: a record that lacks a quote for any outcome of a market is left out *)
(* of that market's evaluation: the entry is the one the records quoting   *)
(* the whole market give on their own, its best odds and sources are of    *)
(* those records, and there are at least two of them; the record still     *)
(* counts in every market it quotes completely.                            *)
QuotingOnly(list, m) ==
    SelectSeq(list, LAMBDA r :
        \A k \in Outcomes(m) : ~IsNone(r[MarketFields(m)[k]]))

C6_IncompleteRecordExcluded ==
    Analyzed =>
        /\ \A m \in EvaluatedMarkets :
              pc = "analyzed" =>
                SameEntry(report, Opportunities(QuotingOnly(odds_list, m)), m)
        /\ \A m \in DOMAIN report :
              /\ Cardinality(Quoting(odds_list, m)) >= 2
              /\ \A k \in Outcomes(m) :
                    /\ \E i \in Quoting(odds_list, m) :
                          /\ odds_list[i].source
                                 = report[m].sources[MarketOutcomes(m)[k]]
                          /\ odds_list[i][MarketFields(m)[k]]
                                 = report[m].best_odds[MarketOutcomes(m)[k]]
                    /\ \A i \in Quoting(odds_list, m) :
                          RLeq(odds_list[i][MarketFields(m)[k]],
                               report[m].best_odds[MarketOutcomes(m)[k]])

(* A record that quotes a part of one reported market, above its best      *)
(* odds, and is the source of a best odds value of another market.         *)
C6_Witness ==
    /\ Analyzed
    /\ \E i \in 1..Len(odds_list) : \E m, n \in DOMAIN report :
          /\ i \notin Quoting(odds_list, m)
          /\ \E k \in Outcomes(m) :
                /\ ~IsNone(odds_list[i][MarketFields(m)[k]])
                /\ RLess(report[m].best_odds[MarketOutcomes(m)[k]],
                         odds_list[i][MarketFields(m)[k]])
          /\ i \in Quoting(odds_list, n)
          /\ \E k \in Outcomes(n) :
                /\ report[n].sources[MarketOutcomes(n)[k]] = odds_list[i].source
                /\ \A j \in Quoting(odds_list, n) \ {i} :
                      RLess(odds_list[j][MarketFields(n)[k]],
                            odds_list[i][MarketFields(n)[k]])

OnlyMarket(list, m) ==
    [i \in 1..Len(list) |->
        [f \in DOMAIN list[i] |->
            IF f = "source" \/ \E k \in Outcomes(m) : MarketFields(m)[k] = f
            THEN list[i][f]
            ELSE IF f = "match_id" THEN "match_2" ELSE None]]

C8_MarketsIndependent ==
    pc = "analyzed" =>
        \A m \in SupportedMarkets :
            SameEntry(report, Opportunities(OnlyMarket(odds_list, m)), m)

(* An entry for a market whose records quote other markets too, one of     *)
(* them reported as well.                                                  *)
C8_Witness ==
    /\ Analyzed
    /\ \E m, n \in DOMAIN report :
          /\ m # n
          /\ \A i \in 1..Len(odds_list) :
                OnlyMarket(odds_list, m)[i] # odds_list[i]

C10_Pure ==
    [][ /\ odds_list' = odds_list
        /\ pc' = "profit" => report' = report
        /\ pc' \in {"analyzed", "reanalyzed"} =>
              report' = Opportunities(odds_list') ]_vars

(* calculate_potential_profit has returned the profits of a report with    *)
(* entries.                                                                *)
C10_Witness ==
    /\ pc = "profit"
    /\ DOMAIN report # {}
    /\ DOMAIN profits = DOMAIN report

(* C11: when the input list holds fewer than two records, one or none,     *)
(* find_arbitrage_opportunities returns an empty report: no entry for any  *)
(* market, and no error.                                                   *)
C11_ShortListEmptyReport ==
    (Analyzed /\ Len(odds_list) < 2) =>
        /\ DOMAIN report = {}
        /\ \A m \in SupportedMarkets : m \notin DOMAIN report

(* A call on one record that quotes, on its own, every outcome of a market *)
(* at a negative margin.                                                   *)
C11_Witness ==
    /\ Analyzed
    /\ Len(odds_list) = 1
    /\ \E m \in EvaluatedMarkets :
          /\ Quoting(odds_list, m) = {1}
          /\ RLess(BestMargin(odds_list, m), Int2Rat(0))

(* 100 * |margin| of the best odds of market m, for a negative margin *)
MarginPercent(list, m) ==
    RSub(Int2Rat(0), RMul(BestMargin(list, m), Int2Rat(100)))

(* C12 as claimed: every entry of a report has a profit_margin_percent     *)
(* strictly greater than 0.                                                *)
C12_ProfitMarginPositive ==
    Analyzed =>
        \A m \in DOMAIN report :
            RLess(Int2Rat(0), report[m].profit_margin_percent)

(* C12 as amended: every entry of a report has a profit_margin_percent     *)
(* greater than or equal to 0, which is |margin| * 100 rounded to 2        *)
(* decimal places: a whole number of hundredths at most half a hundredth   *)
(* away from |margin| * 100, hence 0 when |margin| * 100 is below 0.005.   *)
C12_ProfitMarginRounded ==
    Analyzed =>
        \A m \in DOMAIN report :
            LET p == report[m].profit_margin_percent
                x == MarginPercent(odds_list, m)
            IN  /\ RLeq(Int2Rat(0), p)
                /\ 100 % p[2] = 0
                /\ RLeq(RSub(p, x), Rat(1, 200))
                /\ RLeq(RSub(x, p), Rat(1, 200))
                /\ RLess(x, Rat(1, 200)) => p = Int2Rat(0)

(* A report with an entry whose margin is negative and whose               *)
(* profit_margin_percent is 0, and an entry whose profit_margin_percent is *)
(* above 0.                                                                *)
C12_Witness ==
    /\ Analyzed
    /\ \E m \in DOMAIN report :
          /\ report[m].profit_margin_percent = Int2Rat(0)
          /\ RLess(BestMargin(odds_list, m), Int2Rat(0))
    /\ \E m \in DOMAIN report :
          RLess(Int2Rat(0), report[m].profit_margin_percent)

(* The arguments name the quote and give no odds value that is 0 or below *)
RawValid ==
    /\ \A i \in 1..Len(IdentityFields) : raw[IdentityFields[i]] # ""
    /\ \A f \in Range(OddsFields) \cap DOMAIN raw :
          IsNone(raw[f]) \/ RLess(Int2Rat(0), raw[f])

(* C13: constructing a BettingOdds fails with a validation error, and      *)
(* produces no record, when source, match_id, home_team or away_team is    *)
(* empty or any present odds field is zero or negative; it succeeds when   *)
(* the identity fields are non-empty and every present odds value is       *)
(* positive, the record holding the given values and None for every odds   *)
(* field not given.                                                        *)
C13_ValidatedConstruction ==
    last.op = "init" =>
        IF RawValid
        THEN /\ last.exc = ""
             /\ last.value = Len(heap)
             /\ DOMAIN heap[last.value] = Fields
             /\ \A f \in Fields :
                   heap[last.value][f]
                       = IF f \in DOMAIN raw THEN raw[f] ELSE None
        ELSE /\ last.exc = "ValueError"
             /\ heap = <<>>

(* A construction refused for an odds value of 0 alone *)
C13_Witness ==
    /\ last.op = "init"
    /\ last.exc = "ValueError"
    /\ \A i \in 1..Len(IdentityFields) : raw[IdentityFields[i]] # ""
    /\ \E f \in Range(OddsFields) \cap DOMAIN raw : raw[f] = Int2Rat(0)

(* C14: a record is immutable after construction: every attempt to assign  *)
(* to a field, to add an attribute or to delete a field fails with an      *)
(* error and leaves every record as it was.                                *)
C14_Immutable ==
    [][ mutations' # mutations => (last'.exc # "" /\ heap' = heap) ]_vars

(* C15: in every reachable state each existing record has non-empty        *)
(* source, match_id, home_team and away_team and every present odds value  *)
(* strictly greater than 0.                                                *)
C15_RecordsStayValid ==
    \A i \in 1..Len(heap) :
        /\ \A k \in 1..Len(IdentityFields) :
              /\ IdentityFields[k] \in DOMAIN heap[i]
              /\ heap[i][IdentityFields[k]] # ""
        /\ \A f \in Range(OddsFields) :
              \/ IsNone(GetAttr(heap[i], f))
              \/ RLess(Int2Rat(0), GetAttr(heap[i], f))

(* C16: two records constructed from equal values for all fields compare   *)
(* equal, have hashes, and a set built from both has one element.          *)
C16_EqualRecordsSameKey ==
    (Len(heap) >= 2 /\ mutations = 0) =>
        /\ last.op = "eq" => (last.exc = "" /\ last.value = TRUE)
        /\ last.op = "hash" => last.exc = ""
        /\ last.op = "set" => (last.exc = "" /\ last.value = 1)

(* C17: calculate_arbitrage_margin treats an empty probability list as a   *)
(* caller error: it fails with an error instead of returning a margin.     *)
C17_EmptyListRejected ==
    (am_result.exc # "NotCalled" /\ am_probabilities = <<>>) =>
        am_result.exc # ""

(* C18: calculate_implied_probability returns 1/odds for every odds > 0,   *)
(* the value whose product with odds is 1, and fails with an error,        *)
(* returning no value, for every odds <= 0.                                *)
C18_ImpliedProbability ==
    ip_result.exc # "NotCalled" =>
        IF RLess(Int2Rat(0), ip_odds)
        THEN /\ ip_result.exc = ""
             /\ RMul(ip_result.value, ip_odds) = Int2Rat(1)
        ELSE /\ ip_result.exc = "ValueError"
             /\ ip_result.value = <<>>

(* The call with odds of exactly 0 *)
C18_Witness ==
    /\ ip_odds = Int2Rat(0)
    /\ ip_result.exc = "ValueError"

(* The total of a list, added from the right *)
RECURSIVE TotalOf(_)
TotalOf(ps) ==
    IF Len(ps) = 0 THEN Int2Rat(0) ELSE RAdd(Head(ps), TotalOf(Tail(ps)))

(* C19: for every non-empty list of probabilities calculate_arbitrage_margin *)
(* returns the sum of the list minus 1: positive when the sum exceeds 1,   *)
(* negative when it is below 1, and exactly 0 when the list sums to 1.     *)
C19_MarginIsSumMinusOne ==
    (am_result.exc # "NotCalled" /\ Len(am_probabilities) > 0) =>
        /\ am_result.exc = ""
        /\ RAdd(am_result.value, Int2Rat(1)) = TotalOf(am_probabilities)
        /\ RLess(Int2Rat(1), TotalOf(am_probabilities))
              => RLess(Int2Rat(0), am_result.value)
        /\ RLess(TotalOf(am_probabilities), Int2Rat(1))
              => RLess(am_result.value, Int2Rat(0))
        /\ TotalOf(am_probabilities) = Int2Rat(1)
              => am_result.value = Int2Rat(0)

(* Three different probabilities that sum to 1, and the margin 0 *)
C19_Witness ==
    /\ am_result.exc = ""
    /\ Len(am_probabilities) = 3
    /\ am_probabilities[1] # am_probabilities[2]
    /\ am_probabilities[2] # am_probabilities[3]
    /\ am_probabilities[1] # am_probabilities[3]
    /\ am_result.value = Int2Rat(0)

(* C20: calculate_stake_distribution fails with an error, returning no     *)
(* stakes, when the odds list is empty or any odds value in it is zero or  *)
(* negative, whatever the other values and the total stake are.            *)
C20_BadOddsRejected ==
    (pc = "sd_done" /\ ~PositiveOdds(sd_odds)) =>
        /\ sd_result.exc = "ValueError"
        /\ sd_result.value = <<>>

(* Odds of 0 in the last place after two positive odds, and a positive     *)
(* total stake.                                                            *)
C20_Witness ==
    /\ pc = "sd_done"
    /\ Len(sd_odds) = 3
    /\ RLess(Int2Rat(0), sd_odds[1]) /\ RLess(Int2Rat(0), sd_odds[2])
    /\ sd_odds[3] = Int2Rat(0)
    /\ RLess(Int2Rat(0), sd_total)
    /\ sd_result.exc = "ValueError"

(* total_stake * profit_margin_percent / 100 of one entry *)
ExactProfit(entry, total_stake) ==
    RDiv(RMul(total_stake, entry.profit_margin_percent), Int2Rat(100))

(* C21: calculate_potential_profit returns a mapping with exactly the      *)
(* market keys of the given opportunities, each mapped to total_stake *    *)
(* profit_margin_percent / 100 of that market's own entry rounded to 2     *)
(* decimal places: a whole number of hundredths at most half a hundredth   *)
(* away from it.                                                           *)
C21_ProfitPerMarket ==
    pc = "profit" =>
        /\ DOMAIN profits = DOMAIN report
        /\ \A m \in DOMAIN report :
              LET x == ExactProfit(report[m], profit_stake)
              IN  /\ 100 % profits[m][2] = 0
                  /\ RLeq(RSub(profits[m], x), Rat(1, 200))
                  /\ RLeq(RSub(x, profits[m]), Rat(1, 200))

(* Profits of a report with two entries of different margins, one of them  *)
(* rounded.                                                                *)
C21_Witness ==
    /\ pc = "profit"
    /\ \E m, n \in DOMAIN report :
          /\ report[m].profit_margin_percent # report[n].profit_margin_percent
          /\ profits[m] # ExactProfit(report[m], profit_stake)
          /\ profits[n] # profits[m]

(* The positions of the records that quote every outcome of m and whose    *)
(* value for outcome k is the one the entry reports as best.               *)
Tying(list, entry, m, k) ==
    { i \in Quoting(list, m) :
        list[i][MarketFields(m)[k]] = entry.best_odds[MarketOutcomes(m)[k]] }

(* C29: for every report entry and every outcome, the reported source is   *)
(* the source of the first record, in input order, among the records that  *)
(* quote every outcome of the market, whose value for that outcome equals  *)
(* the reported best odds.                                                 *)
C29_FirstTyingSource ==
    Analyzed =>
        \A m \in DOMAIN report : \A k \in Outcomes(m) :
            LET tying == Tying(odds_list, report[m], m, k)
            IN  /\ tying # {}
                /\ \A i \in tying :
                      (\A j \in tying : i <= j) =>
                          report[m].sources[MarketOutcomes(m)[k]]
                              = odds_list[i].source

(* An entry with an outcome whose best odds the second and the third       *)
(* record quote and the first record, which quotes the market, does not.   *)
C29_Witness ==
    /\ Analyzed
    /\ \E m \in DOMAIN report : \E k \in Outcomes(m) :
          /\ Tying(odds_list, report[m], m, k) = {2, 3}
          /\ 1 \in Quoting(odds_list, m)
          /\ odds_list[2].source # odds_list[3].source

(* x is y to within tol *)
About(x, y, tol) == RLeq(RSub(x, y), tol) /\ RLeq(RSub(y, x), tol)

(* The two records of Scenario B have been analyzed *)
ScenarioB == Analyzed /\ odds_list = create_arbitrage_opportunity_sample

(* C24: for the two records of Scenario B, (2.50, 3.20, 2.80) from the     *)
(* first source and (2.10, 3.80, 3.20) from the second, the report has a   *)
(* 1x2 entry with best odds (2.50, 3.80, 3.20), sources (first, second,    *)
(* second), total implied probability 0.9757 and profit margin 2.43        *)
(* percent, each to the last digit given.                                  *)
C24_ScenarioB1x2 ==
    ScenarioB =>
        /\ "1x2" \in DOMAIN report
        /\ LET entry == report["1x2"]
           IN  /\ entry.best_odds.home = F(5, 2)
               /\ entry.best_odds.draw = F(19, 5)
               /\ entry.best_odds.away = F(16, 5)
               /\ entry.sources.home = odds_list[1].source
               /\ entry.sources.draw = odds_list[2].source
               /\ entry.sources.away = odds_list[2].source
               /\ About(entry.total_implied_probability, F(9757, 10000),
                        F(1, 20000))
               /\ About(entry.profit_margin_percent, F(243, 100), F(1, 200))

(* The report of Scenario B, with its 1x2 entry. *)
C24_Witness ==
    /\ ScenarioB
    /\ "1x2" \in DOMAIN report
    /\ odds_list[1].source # odds_list[2].source
    /\ odds_list[1].home_win = F(5, 2)
    /\ odds_list[2].home_win = F(21, 10)

(* The stakes of the entry are about s, and each leg returns about payout  *)
StakesAbout(entry, m, s, payout) ==
    /\ Len(entry.stake_distribution_100) = Len(s)
    /\ \A k \in 1..Len(s) :
          /\ About(entry.stake_distribution_100[k], s[k], F(1, 100))
          /\ About(RMul(entry.stake_distribution_100[k],
                        entry.best_odds[MarketOutcomes(m)[k]]),
                   payout, F(1, 100))

(* C25, as claimed: for Scenario B the reported stake distribution for     *)
(* (home, draw, away) and a total stake of 100 is about (39.01, 51.34,     *)
(* 48.75), and each leg returns about 102.49.                              *)
C25_ScenarioBStakes ==
    ScenarioB =>
        /\ "1x2" \in DOMAIN report
        /\ StakesAbout(report["1x2"], "1x2",
                       <<F(3901, 100), F(5134, 100), F(4875, 100)>>,
                       F(10249, 100))

(* C25, amended: for Scenario B the reported stake distribution for        *)
(* (home, draw, away) and a total stake of 100 is about (41.00, 26.97,     *)
(* 32.03), and each leg returns about 102.49.                              *)
C25_ScenarioBStakesEqualPayout ==
    ScenarioB =>
        /\ "1x2" \in DOMAIN report
        /\ StakesAbout(report["1x2"], "1x2",
                       <<F(4100, 100), F(2697, 100), F(3203, 100)>>,
                       F(10249, 100))

(* The report of Scenario B, its 1x2 entry carrying three stakes for the   *)
(* best odds (2.50, 3.80, 3.20).                                           *)
C25_Witness ==
    /\ ScenarioB
    /\ "1x2" \in DOMAIN report
    /\ Len(report["1x2"].stake_distribution_100) = 3
    /\ report["1x2"].best_odds.draw = F(19, 5)

(* The positions of the records an entry takes a best value and a source   *)
(* from: for each outcome, the first record that quotes the market and     *)
(* the reported best value.                                                *)
Contributing(list, entry, m) ==
    { i \in 1..Len(list) :
        \E k \in Outcomes(m) :
            /\ i \in Tying(list, entry, m, k)
            /\ \A j \in Tying(list, entry, m, k) : i <= j }

(* C30: every report entry combines only quotes for one match: the input   *)
(* records that contribute a best odds value or a source to an entry have  *)
(* the same match_id, also for lists that mix records of different         *)
(* matches.                                                                *)
C30_OneMatchPerEntry ==
    Analyzed =>
        \A m \in DOMAIN report :
            \A i, j \in Contributing(odds_list, report[m], m) :
                odds_list[i].match_id = odds_list[j].match_id

(* This step is a call of one of ops on the storage *)
StorageCall(ops) == st_last'.n = st_last.n + 1 /\ st_last'.op \in ops

(* C22: on a storage that has never been initialized, or that has been     *)
(* closed since its last initialize(), store and store_batch, also with an *)
(* empty list, fail with RuntimeError and leave the file as it was.        *)
C22_StoreNeedsInitialize ==
    [][ (StorageCall({"store", "store_batch"}) /\ lifecycle # "initialized")
            => (st_last'.exc = "RuntimeError" /\ csvfile' = csvfile) ]_vars

(* store_batch of an empty list has failed on a storage closed after rows  *)
(* were written to its file.                                               *)
C22_Witness ==
    /\ st_last.op = "store_batch" /\ Len(st_last.arg) = 0
    /\ st_last.exc = "RuntimeError"
    /\ lifecycle = "closed"
    /\ Len(csvfile.rows) > 0

(* C23: close() raises no error and leaves the storage not initialized and *)
(* the file as it was, on an initialized and on a never-initialized        *)
(* storage; a close() right after a close() changes nothing.               *)
C23_CloseIdempotent ==
    [][ StorageCall({"close"})
            => /\ st_last'.exc = ""
               /\ ~storage'.is_initialized
               /\ csvfile' = csvfile
               /\ st_last.op = "close" => storage' = storage ]_vars

(* close() called twice in a row: on an initialized storage, then again    *)
C23_Witness ==
    /\ st_last.op = "close" /\ st_last.prev = "close"
    /\ st_last.exc = ""
    /\ lifecycle = "closed"
    /\ storage.csv_file_path # NoPath

(* C26: on an initialized storage, store(r) and store_batch(rs) succeed    *)
(* for records as BettingOdds(...) builds them and append one row per      *)
(* record, in list order, after the rows the file had, which stay as they  *)
(* were.                                                                   *)
C26_StoreAppendsRows ==
    [][ (/\ StorageCall({"store", "store_batch"})
         /\ storage.is_initialized
         /\ \A k \in 1..Len(st_last'.arg) : DOMAIN st_last'.arg[k] = Fields)
            => /\ st_last'.exc = ""
               /\ Len(csvfile'.rows) = Len(csvfile.rows) + Len(st_last'.arg)
               /\ SubSeq(csvfile'.rows, 1, Len(csvfile.rows)) = csvfile.rows
               /\ \A k \in 1..Len(st_last'.arg) :
                    LET row == csvfile'.rows[Len(csvfile.rows) + k]
                    IN  /\ row[2] = <<st_last'.arg[k].source>>
                        /\ row[6] = CsvText(st_last'.arg[k].home_win) ]_vars

(* C27: in a continuous scrape, at most one extraction is begun at or      *)
(* after session_end_time before scrape() returns, whether the passes of   *)
(* the loop succeed, find no data, or raise in the extraction or in        *)
(* storage.store.                                                          *)
C27_StopsAfterSessionEnd == after_end <= 1

(* C28: in the result of scrape() every pass of the loop is counted once:  *)
(* successful_scrapes + failed_scrapes is the number of extraction         *)
(* attempts, and successful_scrapes is the length of data and the number   *)
(* of records storage.store accepted, also when storage.store raises.      *)
C28_EveryPassCountedOnce ==
    pc = "returned" =>
        /\ result.successful_scrapes + result.failed_scrapes = attempts
        /\ result.successful_scrapes = Len(result.data)
        /\ result.successful_scrapes = accepted

=============================================================================
